---- MODULE Spec2Model ----
(***************************************************************************)
(* A model of the NAU7802 load-cell amplifier driver (NAU7802.cpp) and of  *)
(* the QwiicScale layer on top of it.  The I2C bus and the chip are the    *)
(* environment: every physical transaction gets its outcome (the value     *)
(* Wire.endTransmission returns, the number of bytes Wire.requestFrom      *)
(* delivers, the time it takes) as an input of the action that issues it.  *)
(***************************************************************************)
EXTENDS Integers, Sequences, FiniteSets, TLC

(***************************************************************************)
(* Program constants (NAU7802.h).                                          *)
(***************************************************************************)
NAU7802_PU_CTRL == 0
NAU7802_CTRL1 == 1
NAU7802_CTRL2 == 2
NAU7802_ADCO_B2 == 18

NAU7802_PU_CTRL_CR == 5
NAU7802_CTRL2_CALS == 2
NAU7802_CTRL2_CAL_ERROR == 3
NAU7802_CTRL2_CRS == 4

NAU7802_CAL_SUCCESS == 0
NAU7802_CAL_IN_PROGRESS == 1
NAU7802_CAL_FAILURE == 2

NAU7802_OK == 0
NAU7802_I2C_DATA_TOO_BIG_ERROR == -1
NAU7802_I2C_NACK_ADDR_ERROR == -2
NAU7802_I2C_NACK_DATA_ERROR == -3
NAU7802_I2C_ERROR == -4
NAU7802_I2C_NO_DATA_ERROR == -5
NAU7802_TIMEOUT_ERROR == -6
NAU7802_POWER_UP_ERROR == -7
NAU7802_CAL_AFE_ERROR == -8

\* int tries = 3 in i2c_write
Tries == 3
\* waitForCalibrateAFE(1000) in calibrateAFE
CalibrateTimeoutMs == 1000
\* unsigned long timeout = average_size * 13 in getAverageReading
MsPerSample == 13

(***************************************************************************)
(* Bounds of the model.                                                    *)
(***************************************************************************)
\* the longest one register transaction may take, in milliseconds
MaxBusMs == 1
\* the largest average_size a modelled call passes
MaxN == 2
\* how long a wait without timeout is followed, in milliseconds
MaxWaitMs == 6
\* the QwiicScale calls of a run
MaxCalls == 3

(***************************************************************************)
(* Bytes and bits.                                                         *)
(***************************************************************************)
Byte == 0..255

RECURSIVE BitAnd(_, _)
BitAnd(a, b) ==
    IF a = 0 \/ b = 0 THEN 0
    ELSE (a % 2) * (b % 2) + 2 * BitAnd(a \div 2, b \div 2)

RECURSIVE BitOr(_, _)
BitOr(a, b) ==
    IF a = 0 THEN b
    ELSE IF b = 0 THEN a
    ELSE (IF a % 2 = 1 \/ b % 2 = 1 THEN 1 ELSE 0) + 2 * BitOr(a \div 2, b \div 2)

\* ~m for an int m, taken on the 16 bits of an AVR int
BitNot16(m) == 65535 - m

\* the assignment of an int to a uint8_t
ToUint8(x) == x % 256

\* bit b of byte v, as 0 or 1
BitOf(v, b) == (v \div (2 ^ b)) % 2

(***************************************************************************)
(* uint32_t values.  TLC's integers are 32-bit signed, so a uint32_t is    *)
(* kept as its two 16-bit halves (the millisecond clock) or as its four    *)
(* bytes, most significant first (the ADC word).                           *)
(***************************************************************************)
Half == 2 ^ 16

U32Add(c, d) ==
    LET s == c.lo + d
    IN  [hi |-> (c.hi + (s \div Half)) % Half, lo |-> s % Half]

\* a - b in uint32_t arithmetic
U32Sub(a, b) ==
    LET borrow == IF a.lo < b.lo THEN 1 ELSE 0
    IN  [hi |-> (a.hi - b.hi - borrow) % Half, lo |-> (a.lo - b.lo) % Half]

U32Ge(a, n) ==
    \/ a.hi > n \div Half
    \/ a.hi = n \div Half /\ a.lo >= n % Half

\* a > n for a uint32_t a and a natural n < 2^31
U32Gt(a, n) ==
    \/ a.hi > n \div Half
    \/ a.hi = n \div Half /\ a.lo > n % Half

\* (uint32_t)x for the int x that Wire.read() returns: a byte, or -1
ToU32(x) == IF x < 0 THEN <<255, 255, 255, 255>> ELSE <<0, 0, 0, x>>

Shl8(u) == <<u[2], u[3], u[4], 0>>

Or32(u, v) == [i \in 1..4 |-> BitOr(u[i], v[i])]

\* (int32_t)u
ToInt32(u) ==
    (IF u[1] >= 128 THEN u[1] - 256 ELSE u[1]) * (2 ^ 24)
        + u[2] * (2 ^ 16) + u[3] * (2 ^ 8) + u[4]

\* x >> 8 for an int32_t x (gcc: arithmetic shift)
Sar8(x) == x \div 256

(***************************************************************************)
(* The register transport.  outs[k] is what Wire.endTransmission returns   *)
(* for the k-th physical attempt: 0 success, 1 data too long, 2 NACK on    *)
(* the address, 3 NACK on the data, 4 other error.                         *)
(***************************************************************************)
EndTx == 0..4

Regs == {NAU7802_PU_CTRL, NAU7802_CTRL1, NAU7802_CTRL2}

\* the while (tries) loop of i2c_write, k attempts made so far
RECURSIVE i2c_loop(_, _, _)
i2c_loop(tries, outs, k) ==
    IF tries = 0
    THEN [ret |-> outs[k], wire |-> SubSeq(outs, 1, k)]
    ELSE LET ret == outs[k + 1]
         IN  IF ret \in {1, 2}
             THEN i2c_loop(tries - 1, outs, k + 1)
             ELSE [ret |-> ret, wire |-> SubSeq(outs, 1, k + 1)]

I2cWriteRetryNackData(outs) ==
    IF outs[1] = 3
    THEN LET w == i2c_loop(Tries - 1, Tail(outs), 0)
         IN  [ret |-> w.ret, wire |-> <<3>> \o w.wire]
    ELSE i2c_loop(Tries, outs, 0)

i2c_write(outs) == i2c_loop(Tries, outs, 0)

\* the if/else-if chain that getRegister, setRegister and getReading apply to ret;
\* 0 when none of its branches returns
RetError(ret) ==
    IF ret = 1 THEN NAU7802_I2C_DATA_TOO_BIG_ERROR
    ELSE IF ret = 2 THEN NAU7802_I2C_NACK_ADDR_ERROR
    ELSE IF ret = 3 THEN NAU7802_I2C_NACK_DATA_ERROR
    ELSE IF ret = 4 THEN NAU7802_I2C_ERROR
    ELSE NAU7802_OK

\* getRegister(registerAddress, &contents): rv is the chip's register file, bus the
\* outcome of the transaction, old the caller's contents before the call
getRegister(registerAddress, rv, bus, old) ==
    LET w == i2c_write(bus.outs)
        e == RetError(w.ret)
    IN  IF e # NAU7802_OK
        THEN [err |-> e, val |-> old, wire |-> w.wire]
        ELSE IF bus.avail > 0
        THEN [err |-> NAU7802_OK, val |-> rv[registerAddress], wire |-> w.wire]
        ELSE [err |-> NAU7802_I2C_NO_DATA_ERROR, val |-> old, wire |-> w.wire]

\* setRegister(registerAddress, value): the chip takes the byte when the
\* transmission ends with 0
setRegister(registerAddress, value, rv, bus) ==
    LET w == i2c_write(bus.outs)
    IN  [err |-> RetError(w.ret),
         regs |-> IF w.ret = 0 THEN [rv EXCEPT ![registerAddress] = value] ELSE rv,
         wire |-> w.wire]

\* the 24-bit decoding of getReading: r is what the three Wire.read() calls return
DecodeNoSign(r) ==
    LET valueRaw == Or32(Or32(Shl8(Shl8(ToU32(r[1]))), Shl8(ToU32(r[2]))), ToU32(r[3]))
        s == Shl8(valueRaw)
    IN  s[1] * (2 ^ 16) + s[2] * (2 ^ 8) + s[3]

Decode(r) ==
    LET valueRaw == Or32(Or32(Shl8(Shl8(ToU32(r[1]))), Shl8(ToU32(r[2]))), ToU32(r[3]))
        valueShifted == ToInt32(Shl8(valueRaw))
    IN  Sar8(valueShifted)

\* what the i-th Wire.read() returns when the chip delivered avail of the bytes
WireRead(bytes, avail, i) == IF i <= avail THEN bytes[i] ELSE -1

\* getReading(&result): bytes is the ADC word the chip holds
getReading(bus, bytes, old) ==
    LET w == i2c_write(bus.outs)
        e == RetError(w.ret)
    IN  IF e # NAU7802_OK
        THEN [err |-> e, val |-> old, wire |-> w.wire]
        ELSE IF bus.avail > 0
        THEN [err |-> NAU7802_OK,
              val |-> Decode([i \in 1..3 |-> WireRead(bytes, bus.avail, i)]),
              wire |-> w.wire]
        ELSE [err |-> NAU7802_I2C_NO_DATA_ERROR, val |-> old, wire |-> w.wire]

(***************************************************************************)
(* Program constants (QwiicScale.h).                                       *)
(***************************************************************************)
SCALE_OK == 0
SCALE_EEPROM_READ_CAL_ERROR == -1001
SCALE_EEPROM_READ_OFFSET_ERROR == -1002
SCALE_NOT_CALIBRATED_ERROR == -1003

\* the locations of the two persisted fields after construction
DefaultCalFactorLocation == 0

DefaultZeroOffsetLocation == 10

\* (calibrationFactor - 1.0) < 0.001 holds in the binade of 1.0 up to this
\* many units in the last place above 1.0: 8388 * 2^-23 < 0.001 < 8389 * 2^-23
NearOneUlps == 8388

(***************************************************************************)
(* float values (IEEE 754 binary32), kept as their bit fields: sign s,     *)
(* biased exponent e, fraction m.                                          *)
(***************************************************************************)
Float(s, e, m) == [s |-> s, e |-> e, m |-> m]

Frac == 2 ^ 23

FloatZero(s) == Float(s, 0, 0)

FloatInf(s) == Float(s, 255, 0)

\* the quiet NaN an invalid operation produces
FloatNan == Float(0, 255, 2 ^ 22)

FloatOne == Float(0, 127, 0)

isnan(f) == f.e = 255 /\ f.m # 0

IsInf(f) == f.e = 255 /\ f.m = 0

IsZero(f) == f.e = 0 /\ f.m = 0

\* floor(log2 a) for a >= 1
RECURSIVE Log2(_)
Log2(a) == IF a < 2 THEN 0 ELSE 1 + Log2(a \div 2)

\* q, or q + 1 when the discarded part (r out of unit, sticky beyond it) is
\* more than half a unit, or exactly half with q odd: round to nearest even
RoundEven(q, r, unit, sticky) ==
    IF 2 * r > unit \/ (2 * r = unit /\ (sticky \/ q % 2 = 1)) THEN q + 1 ELSE q

\* the float with significand q in Frac..2*Frac at binary exponent x (value q * 2^x)
Pack(s, q, x) ==
    LET e == x + 150 + (q \div (2 * Frac))
    IN  IF e >= 255 THEN FloatInf(s) ELSE Float(s, e, q % Frac)

\* (float)i for an int32_t i above INT32_MIN
IntToFloat(i) ==
    IF i = 0 THEN FloatZero(0)
    ELSE LET s == IF i < 0 THEN 1 ELSE 0
             a == IF i < 0 THEN -i ELSE i
             p == Log2(a)
         IN  IF p <= 23
             THEN Float(s, 127 + p, a * (2 ^ (23 - p)) - Frac)
             ELSE LET unit == 2 ^ (p - 23)
                  IN  Pack(s, RoundEven(a \div unit, a % unit, unit, FALSE), p - 23)

\* the significand (in Frac..2*Frac-1) and binary exponent of a finite nonzero float
RECURSIVE Normalize(_, _)
Normalize(sig, x) == IF sig >= Frac THEN [sig |-> sig, x |-> x] ELSE Normalize(2 * sig, x - 1)

Sig(f) == IF f.e = 0 THEN Normalize(f.m, -149) ELSE [sig |-> Frac + f.m, x |-> f.e - 150]

\* k more quotient bits of rem / d
RECURSIVE LongDiv(_, _, _, _)
LongDiv(q, rem, d, k) ==
    IF k = 0 THEN [q |-> q, rem |-> rem]
    ELSE IF 2 * rem >= d THEN LongDiv(2 * q + 1, 2 * rem - d, d, k - 1)
                         ELSE LongDiv(2 * q, 2 * rem, d, k - 1)

\* a / b in float arithmetic, rounded to nearest even
FloatDiv(a, b) ==
    LET s == (a.s + b.s) % 2
    IN  IF isnan(a) \/ isnan(b) THEN FloatNan
        ELSE IF IsInf(a) THEN (IF IsInf(b) THEN FloatNan ELSE FloatInf(s))
        ELSE IF IsInf(b) THEN FloatZero(s)
        ELSE IF IsZero(b) THEN (IF IsZero(a) THEN FloatNan ELSE FloatInf(s))
        ELSE IF IsZero(a) THEN FloatZero(s)
        ELSE LET na == Sig(a)
                 nb == Sig(b)
                 k == IF na.sig >= nb.sig THEN 23 ELSE 24
                 d == LongDiv(na.sig \div nb.sig, na.sig % nb.sig, nb.sig, k)
                 x == na.x - nb.x - k
                 e == x + 150
             IN  IF e >= 1
                 THEN Pack(s, RoundEven(d.q, d.rem, nb.sig, FALSE), x)
                 ELSE IF e < -24 THEN FloatZero(s)
                 ELSE LET unit == 2 ^ (1 - e)
                          q == RoundEven(d.q \div unit, d.q % unit, unit, d.rem # 0)
                      IN  Float(s, q \div Frac, q % Frac)

\* f == 0xFFFFFFFF: the unsigned long is converted to float, which gives 2^32
EqualsUlongMax(f) == f = Float(0, 159, 0)

\* (f - 1.0) < 0.001 for a float f: false for NaN, true below 1.0, false from
\* 2.0 on, and between them decided by the distance from 1.0
BelowNearOne(f) ==
    IF isnan(f) THEN FALSE
    ELSE IF f.s = 1 \/ f.e < 127 THEN TRUE
    ELSE f.e = 127 /\ f.m <= NearOneUlps

(***************************************************************************)
(* The non-volatile store: EEPROM.put and EEPROM.get copy the 4 bytes of   *)
(* the object, least significant byte first.                               *)
(***************************************************************************)
FloatBytes(f) ==
    <<f.m % 256, (f.m \div 256) % 256, (f.e % 2) * 128 + (f.m \div 65536), f.s * 128 + (f.e \div 2)>>

BytesFloat(b) ==
    Float(b[4] \div 128, (b[4] % 128) * 2 + (b[3] \div 128), (b[3] % 128) * 65536 + b[2] * 256 + b[1])

LongBytes(i) ==
    <<i % 256, (i \div 256) % 256, (i \div 65536) % 256, (i \div 16777216) % 256>>

BytesLong(b) ==
    (IF b[4] >= 128 THEN b[4] - 256 ELSE b[4]) * 16777216 + b[3] * 65536 + b[2] * 256 + b[1]

\* the addresses of the store the model keeps: the fields lie at 0 to 10
EepromAddrs == 0..13

EepromGet(store, location) == [i \in 1..4 |-> store[location + i - 1]]

EepromPut(store, location, bytes) ==
    [a \in DOMAIN store |-> IF a \in location..(location + 3) THEN bytes[a - location + 1] ELSE store[a]]

(***************************************************************************)
(* The QwiicScale object: this is the record of its member variables, and  *)
(* each method gives the object after it, its return value and the         *)
(* locations it called EEPROM.put with.                                    *)
(***************************************************************************)
StoreCalibrationFactorOnly(this) ==
    EepromPut(this.EEPROM, this.calFactorLocation, FloatBytes(this.calibrationFactor))

\* storeCalibration(): the store after it
storeCalibration(this) ==
    EepromPut(EepromPut(this.EEPROM, this.calFactorLocation, FloatBytes(this.calibrationFactor)),
              this.zeroOffsetLocation, LongBytes(this.zeroOffset))

StoreLocations(this) == <<this.calFactorLocation, this.zeroOffsetLocation>>

CalculateZeroOffsetKeepsFlag(e, avg_offset, this) ==
    IF e # NAU7802_OK
    THEN [err |-> e, this |-> this, puts |-> <<>>]
    ELSE LET t == [this EXCEPT !.zeroOffset = avg_offset]
         IN  IF this.useEEPROM
             THEN [err |-> SCALE_OK, this |-> [t EXCEPT !.EEPROM = storeCalibration(t)],
                   puts |-> StoreLocations(t)]
             ELSE [err |-> SCALE_OK, this |-> t, puts |-> <<>>]

\* calculateZeroOffset(average_size) once getAverageReading has returned e
\* with avg_offset in the result variable
calculateZeroOffset(e, avg_offset, this) ==
    IF e # NAU7802_OK
    THEN [err |-> e, this |-> [this EXCEPT !.isCalibrated = FALSE], puts |-> <<>>]
    ELSE LET t == [this EXCEPT !.zeroOffset = avg_offset]
         IN  IF this.useEEPROM
             THEN [err |-> SCALE_OK, this |-> [t EXCEPT !.EEPROM = storeCalibration(t)],
                   puts |-> StoreLocations(t)]
             ELSE [err |-> SCALE_OK, this |-> t, puts |-> <<>>]

\* calculateCalibrationFactor(calibration_weight_grams, average_size) once
\* getAverageReading has returned e with avg_reading in the result variable
calculateCalibrationFactor(e, avg_reading, calibration_weight_grams, this) ==
    IF e # NAU7802_OK
    THEN [err |-> e, this |-> [this EXCEPT !.isCalibrated = FALSE], puts |-> <<>>]
    ELSE LET newCalFactor == FloatDiv(IntToFloat(avg_reading - this.zeroOffset), calibration_weight_grams)
             t == [this EXCEPT !.calibrationFactor = newCalFactor]
         IN  IF this.useEEPROM
             THEN [err |-> SCALE_OK,
                   this |-> [t EXCEPT !.EEPROM = storeCalibration(t), !.isCalibrated = TRUE],
                   puts |-> StoreLocations(t)]
             ELSE [err |-> SCALE_OK, this |-> [t EXCEPT !.isCalibrated = TRUE], puts |-> <<>>]

NotCalibratedNever(this) == FALSE

\* the guard of getAverageWeight: if (!isCalibrated)
NotCalibrated(this) == ~this.isCalibrated

\* getAverageWeight(&avg_weight, average_size, allow_negative) once
\* getAverageReading has returned e with avg_reading in the result variable;
\* weight is the caller's variable before the call
getAverageWeight(e, avg_reading, allow_negative, weight, this) ==
    IF e # NAU7802_OK
    THEN [err |-> e, avg_weight |-> weight, written |-> FALSE]
    ELSE LET clamped == IF ~allow_negative /\ avg_reading < this.zeroOffset
                        THEN this.zeroOffset
                        ELSE avg_reading
         IN  [err |-> SCALE_OK,
              avg_weight |-> FloatDiv(IntToFloat(clamped - this.zeroOffset), this.calibrationFactor),
              written |-> TRUE]

Defaults(this) ==
    [this EXCEPT !.isCalibrated = FALSE, !.calibrationDetected = FALSE,
                 !.zeroOffset = 0, !.calibrationFactor = FloatOne]

ReadCalibrationKeepsOffset(this) ==
    LET settingCalibrationFactor == BytesFloat(EepromGet(this.EEPROM, this.calFactorLocation))
        settingZeroOffset == BytesLong(EepromGet(this.EEPROM, this.zeroOffsetLocation))
        d == Defaults(this)
    IN  IF EqualsUlongMax(settingCalibrationFactor) \/ isnan(settingCalibrationFactor)
        THEN [err |-> SCALE_EEPROM_READ_CAL_ERROR,
              this |-> [d EXCEPT !.zeroOffset = this.zeroOffset,
                                 !.EEPROM = EepromPut(this.EEPROM, this.calFactorLocation,
                                                      FloatBytes(FloatOne))],
              puts |-> <<this.calFactorLocation>>]
        ELSE IF settingZeroOffset = -1
        THEN [err |-> SCALE_EEPROM_READ_OFFSET_ERROR,
              this |-> [d EXCEPT !.EEPROM =
                            EepromPut(EepromPut(this.EEPROM, this.zeroOffsetLocation, LongBytes(0)),
                                      this.calFactorLocation, FloatBytes(FloatOne))],
              puts |-> <<this.zeroOffsetLocation, this.calFactorLocation>>]
        ELSE LET factory == settingZeroOffset = 0 \/ BelowNearOne(settingCalibrationFactor)
             IN  [err |-> SCALE_OK,
                  this |-> [this EXCEPT !.calibrationFactor = settingCalibrationFactor,
                                        !.zeroOffset = settingZeroOffset,
                                        !.calibrationDetected = ~factory,
                                        !.isCalibrated = ~factory],
                  puts |-> <<>>]

\* readCalibration().  settingZeroOffset == 0xFFFFFFFF holds for the long -1,
\* and isnan of a long never holds
readCalibration(this) ==
    LET settingCalibrationFactor == BytesFloat(EepromGet(this.EEPROM, this.calFactorLocation))
        settingZeroOffset == BytesLong(EepromGet(this.EEPROM, this.zeroOffsetLocation))
        d == Defaults(this)
    IN  IF EqualsUlongMax(settingCalibrationFactor) \/ isnan(settingCalibrationFactor)
        THEN [err |-> SCALE_EEPROM_READ_CAL_ERROR,
              this |-> [d EXCEPT !.EEPROM = EepromPut(this.EEPROM, this.calFactorLocation,
                                                      FloatBytes(FloatOne))],
              puts |-> <<this.calFactorLocation>>]
        ELSE IF settingZeroOffset = -1
        THEN [err |-> SCALE_EEPROM_READ_OFFSET_ERROR,
              this |-> [d EXCEPT !.EEPROM =
                            EepromPut(EepromPut(this.EEPROM, this.zeroOffsetLocation, LongBytes(0)),
                                      this.calFactorLocation, FloatBytes(FloatOne))],
              puts |-> <<this.zeroOffsetLocation, this.calFactorLocation>>]
        ELSE LET factory == settingZeroOffset = 0 \/ BelowNearOne(settingCalibrationFactor)
             IN  [err |-> SCALE_OK,
                  this |-> [this EXCEPT !.calibrationFactor = settingCalibrationFactor,
                                        !.zeroOffset = settingZeroOffset,
                                        !.calibrationDetected = ~factory,
                                        !.isCalibrated = ~factory],
                  puts |-> <<>>]

\* setCalFactorLocation(eeprom_location)
setCalFactorLocation(eeprom_location, this) == [this EXCEPT !.calFactorLocation = eeprom_location]

\* setZeroOffsetLocation(eeprom_location)
setZeroOffsetLocation(eeprom_location, this) == [this EXCEPT !.calFactorLocation = eeprom_location]

(***************************************************************************)
(* Inputs.                                                                 *)
(***************************************************************************)
\* every course a call of i2c_write can take
AllOuts == [1..Tries -> EndTx]

\* one course per result of a register transaction, for the composite operations
Scripts ==
    { <<0, 0, 0>>, <<2, 0, 0>>, <<1, 1, 1>>, <<2, 2, 2>>, <<3, 0, 0>>, <<4, 0, 0>> }

\* a transaction that succeeds at once and delivers its bytes
BusOk == [outs |-> <<0, 0, 0>>, avail |-> 3]

ByteSamples == {0, 1, 127, 128, 255}

AdcWords == [1..3 -> ByteSamples]

\* the millisecond clock when an operation is called: early, and just before
\* the 32-bit counter wraps
StartClocks == { [hi |-> 0, lo |-> 5], [hi |-> Half - 1, lo |-> Half - 2] }

(***************************************************************************)
(* State.                                                                  *)
(***************************************************************************)
VARIABLES
    pc,             \* "idle", or the loop the running operation is in
    op,             \* the operation running or last completed
    regs,           \* the chip's registers
    now,            \* millis()
    elapsed,        \* milliseconds since the running operation was called
    err,            \* the error code the last completed operation returned
    out,            \* the caller's result variable
    wire,           \* what endTransmission returned in the last call of i2c_write
    steps,          \* the register transactions of the last step
    begin, timeout_ms, cal_status, allCalibrating,
    average_size, timeout, startTime, total, samplesAquired, ready,
    taken,          \* the samples read by the running getAverageReading
    divided,        \* the divisor of the last division total / average_size
    prevBudget, curBudget,
    seqStage, seqBit, seqReg, seqPre,
    zeroOffset, calibrationFactor, isCalibrated, calibrationDetected, useEEPROM,
    calFactorLocation, zeroOffsetLocation,
    EEPROM,         \* the bytes of the non-volatile store
    avg_weight,     \* the caller's weight variable
    caller,         \* the QwiicScale method getAverageReading returns to
    calibration_weight_grams, allow_negative,
    puts,           \* the locations EEPROM.put was called with in the last operation
    weightWritten,  \* whether the last operation assigned *avg_weight
    pre,            \* the QwiicScale object when the last operation was called
    established,    \* which of the two calibration values a capture or a load has set
    untouched,      \* no capture and no load since construction
    zeroFailed,     \* a zero-offset capture failed and no gain-factor capture succeeded since
    lastSet,        \* the last call of a location setter, and the locations before it
    calls           \* the number of QwiicScale calls so far

busVars == <<wire, steps>>
waitVars == <<begin, timeout_ms, cal_status, allCalibrating>>
avgVars == <<average_size, timeout, startTime, total, samplesAquired, ready, taken, divided>>
budgetVars == <<prevBudget, curBudget>>
monVars == <<seqStage, seqBit, seqReg, seqPre>>
objVars == <<zeroOffset, calibrationFactor, isCalibrated, calibrationDetected, useEEPROM,
             calFactorLocation, zeroOffsetLocation, EEPROM>>
argVars == <<avg_weight, caller, calibration_weight_grams, allow_negative>>
ghostVars == <<puts, weightWritten, pre, established, untouched, zeroFailed, lastSet, calls>>
scaleVars == <<objVars, argVars, ghostVars>>
vars == <<pc, op, regs, now, elapsed, err, out, busVars, waitVars, avgVars, budgetVars, monVars,
          scaleVars>>

Step(fn, reg, e, data, avail) ==
    [fn |-> fn, reg |-> reg, err |-> e, data |-> data, avail |-> avail]

NoBudget == [rate |-> -1, n |-> 0, timeout |-> 0]

InitDriver(rv) ==
    /\ pc = "idle"
    /\ op = "none"
    /\ regs = rv
    /\ now = [hi |-> 0, lo |-> 0]
    /\ elapsed = 0
    /\ err = NAU7802_OK
    /\ out = 0
    /\ wire = <<>>
    /\ steps = <<>>
    /\ begin = [hi |-> 0, lo |-> 0]
    /\ timeout_ms = 0
    /\ cal_status = NAU7802_CAL_SUCCESS
    /\ allCalibrating = TRUE
    /\ average_size = 0
    /\ timeout = 0
    /\ startTime = [hi |-> 0, lo |-> 0]
    /\ total = 0
    /\ samplesAquired = 0
    /\ ready = FALSE
    /\ taken = <<>>
    /\ divided = -1
    /\ prevBudget = NoBudget
    /\ curBudget = NoBudget
    /\ seqStage = 0
    /\ seqBit = 0
    /\ seqReg = 0
    /\ seqPre = 0

\* the QwiicScale object
This ==
    [zeroOffset |-> zeroOffset, calibrationFactor |-> calibrationFactor,
     isCalibrated |-> isCalibrated, calibrationDetected |-> calibrationDetected,
     useEEPROM |-> useEEPROM, calFactorLocation |-> calFactorLocation,
     zeroOffsetLocation |-> zeroOffsetLocation, EEPROM |-> EEPROM]

\* the store holding the bytes of the two fields at the default locations
StoreOf(factorBytes, offsetBytes) ==
    EepromPut(EepromPut([a \in EepromAddrs |-> 255], DefaultCalFactorLocation, factorBytes),
              DefaultZeroOffsetLocation, offsetBytes)

Erased == <<255, 255, 255, 255>>

\* the QwiicScale object after construction, over the store the board holds
InitScale(store) ==
    /\ zeroOffset = 0
    /\ calibrationFactor = FloatOne
    /\ isCalibrated = FALSE
    /\ calibrationDetected = FALSE
    /\ useEEPROM = TRUE
    /\ calFactorLocation = DefaultCalFactorLocation
    /\ zeroOffsetLocation = DefaultZeroOffsetLocation
    /\ EEPROM = store
    /\ avg_weight = FloatZero(0)
    /\ caller = "none"
    /\ calibration_weight_grams = FloatZero(0)
    /\ allow_negative = TRUE
    /\ puts = <<>>
    /\ weightWritten = FALSE
    /\ pre = This
    /\ established = [zero |-> FALSE, gain |-> FALSE]
    /\ untouched = TRUE
    /\ zeroFailed = FALSE
    /\ lastSet = [fn |-> "none", eeprom_location |-> 0,
                  calFactorLocation |-> DefaultCalFactorLocation,
                  zeroOffsetLocation |-> DefaultZeroOffsetLocation]
    /\ calls = 0

InitWith(rv) == InitDriver(rv) /\ InitScale(StoreOf(Erased, Erased))

Done(o) == pc = "ret" /\ op = o /\ caller = "none"

\* the caller takes the result; the next call starts from fresh locals, and a
\* completed clearBit, setBit, getBit sequence is forgotten
ReturnDriver ==
    /\ pc = "ret"
    /\ caller = "none"
    /\ pc' = "idle"
    /\ op' = "none"
    /\ elapsed' = 0
    /\ err' = NAU7802_OK
    /\ out' = 0
    /\ wire' = <<>>
    /\ steps' = <<>>
    /\ begin' = [hi |-> 0, lo |-> 0]
    /\ timeout_ms' = 0
    /\ cal_status' = NAU7802_CAL_SUCCESS
    /\ allCalibrating' = TRUE
    /\ average_size' = 0
    /\ timeout' = 0
    /\ startTime' = [hi |-> 0, lo |-> 0]
    /\ total' = 0
    /\ samplesAquired' = 0
    /\ ready' = FALSE
    /\ taken' = <<>>
    /\ divided' = -1
    /\ now' = [hi |-> 0, lo |-> 0]
    /\ IF seqStage = 3
       THEN seqStage' = 0 /\ seqBit' = 0 /\ seqReg' = 0 /\ seqPre' = 0
       ELSE UNCHANGED monVars
    /\ UNCHANGED <<regs, budgetVars>>

Return == ReturnDriver /\ UNCHANGED scaleVars

(***************************************************************************)
(* The transport called directly: getRegister, setRegister, getReading.    *)
(* The caller's result variable holds 0 before the call.                   *)
(***************************************************************************)
CallGetRegister ==
    /\ pc = "idle"
    /\ \E a \in Regs, outs \in AllOuts, avail \in 0..1 :
        LET r == getRegister(a, regs, [outs |-> outs, avail |-> avail], out)
        IN  /\ op' = "getRegister"
            /\ err' = r.err
            /\ out' = r.val
            /\ wire' = r.wire
            /\ steps' = <<Step("getRegister", a, r.err, r.val, avail)>>
    /\ pc' = "ret"
    /\ UNCHANGED <<regs, now, elapsed, waitVars, avgVars, budgetVars, monVars, scaleVars>>

CallSetRegister ==
    /\ pc = "idle"
    /\ \E a \in Regs, value \in {48}, outs \in AllOuts :
        LET r == setRegister(a, value, regs, [outs |-> outs, avail |-> 0])
        IN  /\ op' = "setRegister"
            /\ err' = r.err
            /\ regs' = r.regs
            /\ wire' = r.wire
            /\ steps' = <<Step("setRegister", a, r.err, value, 0)>>
    /\ pc' = "ret"
    /\ UNCHANGED <<now, elapsed, out, waitVars, avgVars, budgetVars, monVars, scaleVars>>

CallGetReading ==
    /\ pc = "idle"
    /\ \E bytes \in AdcWords, outs \in AllOuts, avail \in 0..3 :
        LET r == getReading([outs |-> outs, avail |-> avail], bytes, out)
        IN  /\ op' = "getReading"
            /\ err' = r.err
            /\ out' = r.val
            /\ wire' = r.wire
            /\ steps' = <<Step("getReading", NAU7802_ADCO_B2, r.err, bytes, avail)>>
    /\ pc' = "ret"
    /\ UNCHANGED <<regs, now, elapsed, waitVars, avgVars, budgetVars, monVars, scaleVars>>

InitBus == InitWith([a \in Regs |-> 160 + a])

NextBus == CallGetRegister \/ CallSetRegister \/ CallGetReading \/ Return

SpecBus == InitBus /\ [][NextBus]_vars

(***************************************************************************)
(* C1: the retry rule of the transport.                                    *)
(***************************************************************************)
Transport == {"getRegister", "setRegister", "getReading"}

Nacks == {2, 3}

NackErrors == {NAU7802_I2C_NACK_ADDR_ERROR, NAU7802_I2C_NACK_DATA_ERROR}

\* C1: in the register transport an attempt is followed by another one if and
\* only if it ended in a NACK at the address or data phase and fewer than 3
\* attempts were made; a surfaced NACK error has 3 attempts behind it.
ClaimC1 ==
    (pc = "ret" /\ op \in Transport) =>
        /\ \A i \in 1..Len(wire) : (i < Len(wire)) <=> (wire[i] \in Nacks /\ i < Tries)
        /\ (err \in NackErrors => Len(wire) = Tries)

(***************************************************************************)
(* C6: the 24-bit decoding.                                                *)
(***************************************************************************)
ReadAll3 == Done("getReading") /\ err = NAU7802_OK /\ steps[1].avail = 3

\* C6: getReading decodes the three bytes, most significant first, as a signed
\* 24-bit two's-complement value in [-2^23, 2^23 - 1], with the four boundary
\* cases 7FFFFF, 800000, FFFFFF and 000001.
ThmC6 ==
    ReadAll3 =>
        LET b == steps[1].data
            u == b[1] * 65536 + b[2] * 256 + b[3]
        IN  /\ out = (IF u < 2 ^ 23 THEN u ELSE u - 2 ^ 24)
            /\ out >= -(2 ^ 23)
            /\ out <= 2 ^ 23 - 1
            /\ (b = <<127, 255, 255>> => out = 8388607)
            /\ (b = <<128, 0, 0>> => out = -8388608)
            /\ (b = <<255, 255, 255>> => out = -1)
            /\ (b = <<0, 0, 1>> => out = 1)

WitC6 == ReadAll3 /\ steps[1].data = <<128, 0, 0>> /\ out = -8388608

(***************************************************************************)
(* Bit-field access: setBit, clearBit, getBit.  Each returns the error,    *)
(* the register file after it, the caller's contents and its transactions. *)
(***************************************************************************)
SetBitWrongMask(bitNumber, registerAddress, rv, busR, busW) ==
    LET g == getRegister(registerAddress, rv, busR, 0)
    IN  IF g.err # NAU7802_OK
        THEN [err |-> g.err, regs |-> rv, wire |-> g.wire,
              steps |-> <<Step("getRegister", registerAddress, g.err, g.val, busR.avail)>>]
        ELSE LET value == ToUint8(2 ^ bitNumber)
                 w == setRegister(registerAddress, value, rv, busW)
             IN  [err |-> w.err, regs |-> w.regs, wire |-> w.wire,
                  steps |-> <<Step("getRegister", registerAddress, g.err, g.val, busR.avail),
                              Step("setRegister", registerAddress, w.err, value, 0)>>]

setBit(bitNumber, registerAddress, rv, busR, busW) ==
    LET g == getRegister(registerAddress, rv, busR, 0)
    IN  IF g.err # NAU7802_OK
        THEN [err |-> g.err, regs |-> rv, wire |-> g.wire,
              steps |-> <<Step("getRegister", registerAddress, g.err, g.val, busR.avail)>>]
        ELSE LET value == ToUint8(BitOr(g.val, 2 ^ bitNumber))
                 w == setRegister(registerAddress, value, rv, busW)
             IN  [err |-> w.err, regs |-> w.regs, wire |-> w.wire,
                  steps |-> <<Step("getRegister", registerAddress, g.err, g.val, busR.avail),
                              Step("setRegister", registerAddress, w.err, value, 0)>>]

clearBit(bitNumber, registerAddress, rv, busR, busW) ==
    LET g == getRegister(registerAddress, rv, busR, 0)
    IN  IF g.err # NAU7802_OK
        THEN [err |-> g.err, regs |-> rv, wire |-> g.wire,
              steps |-> <<Step("getRegister", registerAddress, g.err, g.val, busR.avail)>>]
        ELSE LET value == ToUint8(BitAnd(g.val, BitNot16(2 ^ bitNumber)))
                 w == setRegister(registerAddress, value, rv, busW)
             IN  [err |-> w.err, regs |-> w.regs, wire |-> w.wire,
                  steps |-> <<Step("getRegister", registerAddress, g.err, g.val, busR.avail),
                              Step("setRegister", registerAddress, w.err, value, 0)>>]

\* getBit(bitNumber, registerAddress, &contents): old is contents before the call
getBit(bitNumber, registerAddress, rv, busR, old) ==
    LET g == getRegister(registerAddress, rv, busR, old)
    IN  [err |-> g.err,
         val |-> IF g.err # NAU7802_OK THEN g.val ELSE BitAnd(g.val, 2 ^ bitNumber),
         wire |-> g.wire,
         steps |-> <<Step("getRegister", registerAddress, g.err, g.val, busR.avail)>>]

\* the outcomes of a register read and of a register write in a composite operation
ReadBus ==
    {[outs |-> o, avail |-> 1] : o \in Scripts} \cup {[outs |-> <<0, 0, 0>>, avail |-> 0]}
WriteBus == [outs : Scripts, avail : {0}]

BitNumbers == 0..7

\* the register the bit operations of SpecBit work on
BitRegs == {NAU7802_CTRL2}

(***************************************************************************)
(* The calls of SpecBit.  seqStage follows the sequence clearBit(b),       *)
(* setBit(b), getBit(b) on one register, each returning NAU7802_OK:        *)
(* 1 after the clearBit, 2 after the setBit, 3 after the getBit; seqPre is *)
(* the register byte before the clearBit.                                  *)
(***************************************************************************)
CallClearBit ==
    /\ pc = "idle"
    /\ \E b \in BitNumbers, a \in BitRegs, busR \in ReadBus, busW \in WriteBus :
        LET r == clearBit(b, a, regs, busR, busW)
        IN  /\ op' = "clearBit"
            /\ err' = r.err
            /\ regs' = r.regs
            /\ wire' = r.wire
            /\ steps' = r.steps
            /\ IF r.err = NAU7802_OK
               THEN seqStage' = 1 /\ seqBit' = b /\ seqReg' = a /\ seqPre' = regs[a]
               ELSE seqStage' = 0 /\ seqBit' = 0 /\ seqReg' = 0 /\ seqPre' = 0
    /\ pc' = "ret"
    /\ UNCHANGED <<now, elapsed, out, waitVars, avgVars, budgetVars, scaleVars>>

CallSetBit ==
    /\ pc = "idle"
    /\ \E b \in BitNumbers, a \in BitRegs, busR \in ReadBus, busW \in WriteBus :
        LET r == setBit(b, a, regs, busR, busW)
        IN  /\ op' = "setBit"
            /\ err' = r.err
            /\ regs' = r.regs
            /\ wire' = r.wire
            /\ steps' = r.steps
            /\ IF r.err = NAU7802_OK /\ seqStage = 1 /\ seqBit = b /\ seqReg = a
               THEN seqStage' = 2 /\ UNCHANGED <<seqBit, seqReg, seqPre>>
               ELSE seqStage' = 0 /\ seqBit' = 0 /\ seqReg' = 0 /\ seqPre' = 0
    /\ pc' = "ret"
    /\ UNCHANGED <<now, elapsed, out, waitVars, avgVars, budgetVars, scaleVars>>

CallGetBit ==
    /\ pc = "idle"
    /\ \E b \in BitNumbers, a \in BitRegs, busR \in ReadBus :
        LET r == getBit(b, a, regs, busR, out)
        IN  /\ op' = "getBit"
            /\ err' = r.err
            /\ out' = r.val
            /\ wire' = r.wire
            /\ steps' = r.steps
            /\ IF r.err = NAU7802_OK /\ seqStage = 2 /\ seqBit = b /\ seqReg = a
               THEN seqStage' = 3 /\ UNCHANGED <<seqBit, seqReg, seqPre>>
               ELSE seqStage' = 0 /\ seqBit' = 0 /\ seqReg' = 0 /\ seqPre' = 0
    /\ pc' = "ret"
    /\ UNCHANGED <<regs, now, elapsed, waitVars, avgVars, budgetVars, scaleVars>>

InitBit == \E v \in Byte : InitWith([a \in Regs |-> IF a \in BitRegs THEN v ELSE 0])

NextBit == CallClearBit \/ CallSetBit \/ CallGetBit \/ Return

SpecBit == InitBit /\ [][NextBit]_vars

\* the sequence clearBit(b); setBit(b); getBit(b) has just completed
PairThenGet == Done("getBit") /\ seqStage = 3

OtherBitsKept ==
    \A k \in BitNumbers \ {seqBit} : BitOf(regs[seqReg], k) = BitOf(seqPre, k)

\* C2 as claimed: after clearBit(b); setBit(b) on one register, getBit(b) yields
\* the value 1 and the other bits of the register are as before the pair.
ClaimC2 == PairThenGet => (out = 1 /\ OtherBitsKept)

\* C2 amended: after clearBit(b); setBit(b) on one register, getBit(b) yields the
\* register byte masked to bit b, the nonzero value 2^b (1 only for b = 0), bit b
\* of the register is 1 and the other bits are as before the pair.
ThmC2 ==
    PairThenGet =>
        /\ out = 2 ^ seqBit
        /\ out # 0
        /\ BitOf(regs[seqReg], seqBit) = 1
        /\ OtherBitsKept

WitC2 == PairThenGet /\ seqBit = 3 /\ seqPre = 165 /\ out = 8 /\ regs[seqReg] = 173

(***************************************************************************)
(* AFE calibration: calAFEStatus, waitForCalibrateAFE, calibrateAFE.       *)
(***************************************************************************)
\* return err in a function returning NAU7802_Cal_Status: the int becomes a value
\* of the enumeration's unsigned type, none of its three enumerators
ToCalStatus(e) == e % Half

\* calAFEStatus(): rv1 and rv2 are the chip's registers at its two reads
calAFEStatus(rv1, rv2, bus1, bus2) ==
    LET g1 == getBit(NAU7802_CTRL2_CALS, NAU7802_CTRL2, rv1, bus1, 0)
        g2 == getBit(NAU7802_CTRL2_CAL_ERROR, NAU7802_CTRL2, rv2, bus2, g1.val)
    IN  IF g1.err # NAU7802_OK
        THEN [status |-> ToCalStatus(g1.err), steps |-> g1.steps]
        ELSE IF g1.val # 0
        THEN [status |-> NAU7802_CAL_IN_PROGRESS, steps |-> g1.steps]
        ELSE IF g2.err # NAU7802_OK
        THEN [status |-> ToCalStatus(g2.err), steps |-> g1.steps \o g2.steps]
        ELSE IF g2.val # 0
        THEN [status |-> NAU7802_CAL_FAILURE, steps |-> g1.steps \o g2.steps]
        ELSE [status |-> NAU7802_CAL_SUCCESS, steps |-> g1.steps \o g2.steps]

\* beginCalibrateAFE()
beginCalibrateAFE(rv, busR, busW) == setBit(NAU7802_CTRL2_CALS, NAU7802_CTRL2, rv, busR, busW)

\* the chip: a running calibration (CALS set) may end, with or without CAL_ERR
ClearCals(v) == BitAnd(v, 255 - 2 ^ NAU7802_CTRL2_CALS - 2 ^ NAU7802_CTRL2_CAL_ERROR)

DevCal(v) ==
    IF BitOf(v, NAU7802_CTRL2_CALS) = 1
    THEN {v, ClearCals(v), ClearCals(v) + 2 ^ NAU7802_CTRL2_CAL_ERROR}
    ELSE {v}

WithCtrl2(rv, v) == [rv EXCEPT ![NAU7802_CTRL2] = v]

\* the timeouts waitForCalibrateAFE is called with
WaitTimeouts == {0, 3, 100}

BusMs == 0..MaxBusMs

CallWaitForCalibrateAFE ==
    /\ pc = "idle"
    /\ \E t \in WaitTimeouts, c \in StartClocks :
        /\ timeout_ms' = t
        /\ now' = c
        /\ begin' = c
    /\ pc' = "wait"
    /\ op' = "waitForCalibrateAFE"
    /\ elapsed' = 0
    /\ allCalibrating' = TRUE
    /\ UNCHANGED <<regs, err, out, busVars, cal_status, avgVars, budgetVars, monVars, scaleVars>>

CallCalibrateAFE ==
    /\ pc = "idle"
    /\ op' = "calibrateAFE"
    /\ \E busR \in ReadBus, busW \in WriteBus, c \in StartClocks :
        LET b == beginCalibrateAFE(regs, busR, busW)
        IN  /\ regs' = b.regs
            /\ steps' = b.steps
            /\ IF b.err # NAU7802_OK
               THEN /\ pc' = "ret"
                    /\ err' = b.err
                    /\ UNCHANGED <<now, begin, timeout_ms>>
               ELSE /\ pc' = "wait"
                    /\ timeout_ms' = CalibrateTimeoutMs
                    /\ now' = c
                    /\ begin' = c
                    /\ UNCHANGED err
    /\ elapsed' = 0
    /\ allCalibrating' = TRUE
    /\ UNCHANGED <<out, wire, cal_status, avgVars, budgetVars, monVars, scaleVars>>

\* the statements of waitForCalibrateAFE after a poll that took t milliseconds
\* and returned status st with the transactions sp, the chip left with rv
WaitAfterPoll(st, sp, rv, t) ==
    LET clock == U32Add(now, t)
    IN  /\ cal_status' = st
        /\ steps' = sp
        /\ regs' = rv
        /\ allCalibrating' = (allCalibrating /\ st = NAU7802_CAL_IN_PROGRESS)
        /\ IF st = NAU7802_CAL_IN_PROGRESS
           THEN IF timeout_ms > 0 /\ U32Gt(U32Sub(clock, begin), timeout_ms)
                THEN /\ pc' = "ret"
                     /\ err' = NAU7802_CAL_AFE_ERROR
                     /\ now' = clock
                     /\ elapsed' = elapsed + t
                ELSE /\ pc' = "wait"
                     /\ now' = U32Add(clock, 1)
                     /\ elapsed' = elapsed + t + 1
                     /\ UNCHANGED err
           ELSE /\ pc' = "ret"
                /\ err' = NAU7802_OK
                /\ now' = clock
                /\ elapsed' = elapsed + t

\* one turn of the while loop of waitForCalibrateAFE
WaitPoll ==
    /\ pc = "wait"
    /\ timeout_ms > 0 \/ elapsed < MaxWaitMs
    /\ \E v1 \in DevCal(regs[NAU7802_CTRL2]), bus1 \in ReadBus, t \in BusMs :
        LET first == calAFEStatus(WithCtrl2(regs, v1), WithCtrl2(regs, v1), bus1, BusOk)
        IN  IF Len(first.steps) = 1
            THEN WaitAfterPoll(first.status, first.steps, WithCtrl2(regs, v1), t)
            ELSE \E v2 \in DevCal(v1), bus2 \in ReadBus :
                    LET both == calAFEStatus(WithCtrl2(regs, v1), WithCtrl2(regs, v2), bus1, bus2)
                    IN  WaitAfterPoll(both.status, both.steps, WithCtrl2(regs, v2), t)
    /\ UNCHANGED <<op, out, wire, begin, timeout_ms, avgVars, budgetVars, monVars, scaleVars>>

InitCal ==
    \E v \in {0, 2 ^ NAU7802_CTRL2_CALS, 2 ^ NAU7802_CTRL2_CAL_ERROR, 48 + 2 ^ NAU7802_CTRL2_CALS} :
        InitWith(WithCtrl2([a \in Regs |-> 0], v))

NextCal == CallWaitForCalibrateAFE \/ CallCalibrateAFE \/ WaitPoll \/ Return

SpecCal == InitCal /\ [][NextCal]_vars

\* a wait for the calibration has returned: waitForCalibrateAFE, or calibrateAFE
\* past a successful beginCalibrateAFE
Waited ==
    \/ Done("waitForCalibrateAFE")
    \/ Done("calibrateAFE") /\ timeout_ms = CalibrateTimeoutMs

Waiting == pc = "wait"

\* C3: waitForCalibrateAFE(timeout_ms) returns the calibration-timeout error
\* exactly when timeout_ms > 0 and the elapsed time exceeds timeout_ms while the
\* chip still reports the calibration in progress (so a wait still polling has
\* not seen the time exceeded); if every poll reports Calibrating,
\* waitForCalibrateAFE(100) ends with the timeout error, within one polling
\* period of 100 ms; with timeout_ms = 0 it never returns the timeout error and
\* returns only once the in-progress bit is no longer reported.
ThmC3 ==
    /\ Waited =>
        /\ err = NAU7802_CAL_AFE_ERROR <=>
            (timeout_ms > 0 /\ elapsed > timeout_ms /\ cal_status = NAU7802_CAL_IN_PROGRESS)
        /\ (allCalibrating /\ timeout_ms = 100) =>
            (err = NAU7802_CAL_AFE_ERROR /\ elapsed <= 100 + 1 + MaxBusMs)
        /\ timeout_ms = 0 =>
            (err # NAU7802_CAL_AFE_ERROR /\ cal_status # NAU7802_CAL_IN_PROGRESS)
    /\ (Waiting /\ timeout_ms > 0 /\ elapsed > 0) => elapsed - 1 <= timeout_ms
    /\ (Waiting /\ elapsed > 0) => cal_status = NAU7802_CAL_IN_PROGRESS

WitC3 ==
    /\ Done("waitForCalibrateAFE")
    /\ timeout_ms = 100
    /\ allCalibrating
    /\ err = NAU7802_CAL_AFE_ERROR
    /\ elapsed = 101
    /\ begin.hi = Half - 1

\* the last poll of the wait ended in a transport error
PollFailed == Waited /\ steps # <<>> /\ steps[Len(steps)].err # NAU7802_OK

\* C4: calibrateAFE and waitForCalibrateAFE return success only when the
\* calibration ended with CAL_ERR clear; when the in-progress bit clears with
\* CAL_ERR set the caller gets a result that is neither success nor the timeout
\* (stated for waits whose last poll had no transport error).
ClaimC4 ==
    (Waited /\ ~PollFailed) =>
        /\ err = NAU7802_OK => cal_status = NAU7802_CAL_SUCCESS
        /\ cal_status = NAU7802_CAL_FAILURE => err \notin {NAU7802_OK, NAU7802_CAL_AFE_ERROR}

\* C5: when a bus transaction fails while waitForCalibrateAFE polls, the wait
\* returns that transport error code.
ClaimC5 == PollFailed => err = steps[Len(steps)].err

(***************************************************************************)
(* Averaging: available, setSampleRate, getAverageReading.                 *)
(***************************************************************************)
\* available(&ready): rdy is ready before the call
available(rv, bus, rdy) ==
    LET g == getBit(NAU7802_PU_CTRL_CR, NAU7802_PU_CTRL, rv, bus, 0)
    IN  [err |-> g.err,
         ready |-> IF g.err # NAU7802_OK THEN rdy ELSE g.val # 0,
         steps |-> g.steps]

\* setSampleRate(rate)
setSampleRate(rate, rv, busR, busW) ==
    LET r == IF rate > 7 THEN 7 ELSE rate
        g == getRegister(NAU7802_CTRL2, rv, busR, 0)
    IN  IF g.err # NAU7802_OK
        THEN [err |-> g.err, regs |-> rv,
              steps |-> <<Step("getRegister", NAU7802_CTRL2, g.err, g.val, busR.avail)>>]
        ELSE LET value == ToUint8(BitOr(BitAnd(g.val, 143), r * (2 ^ NAU7802_CTRL2_CRS)))
                 w == setRegister(NAU7802_CTRL2, value, rv, busW)
             IN  [err |-> w.err, regs |-> w.regs,
                  steps |-> <<Step("getRegister", NAU7802_CTRL2, g.err, g.val, busR.avail),
                              Step("setRegister", NAU7802_CTRL2, w.err, value, 0)>>]

\* the CRS field of CTRL2: the sample rate the chip is configured with
RateOf(rv) == (rv[NAU7802_CTRL2] \div (2 ^ NAU7802_CTRL2_CRS)) % 8

AccumulateLast(tot, value) == value

\* total += value
Accumulate(tot, value) == tot + value

\* total / average_size for average_size > 0: C division truncates toward zero
Average(tot, n) == IF tot >= 0 THEN tot \div n ELSE -((-tot) \div n)

\* the chip: the cycle-ready bit of PU_CTRL comes and goes
DevReady(v) ==
    { BitOr(v, 2 ^ NAU7802_PU_CTRL_CR), BitAnd(v, 255 - 2 ^ NAU7802_PU_CTRL_CR) }

\* the ADC words the chip delivers to getAverageReading: 0, -1, 8388607
AvgWords == { <<0, 0, 0>>, <<255, 255, 255>>, <<127, 255, 255>> }

\* the outcomes of the 3-byte read of getReading in getAverageReading
ReadingBus ==
    {[outs |-> o, avail |-> 3] : o \in Scripts} \cup {[outs |-> <<0, 0, 0>>, avail |-> 0]}

\* what a build does with total / 0
DivByZeroResults == {0, -1}

\* getAverageReading(&average, n) up to its loop, for n among ns; track says
\* whether the budgets of the calls are remembered
AvgCall(ns, track) ==
    /\ pc = "idle"
    /\ op' = "getAverageReading"
    /\ \E n \in ns, c \in StartClocks :
        /\ average_size' = n
        /\ timeout' = n * MsPerSample
        /\ now' = c
        /\ startTime' = c
        /\ IF track /\ n >= 1
           THEN /\ prevBudget' = curBudget
                /\ curBudget' = [rate |-> RateOf(regs), n |-> n, timeout |-> n * MsPerSample]
           ELSE UNCHANGED budgetVars
        /\ IF n = 0
           THEN /\ divided' = 0
                /\ \/ pc' = "trap" /\ UNCHANGED <<err, out>>
                   \/ pc' = "ret" /\ err' = NAU7802_OK /\ out' \in DivByZeroResults
           ELSE /\ divided' = -1
                /\ pc' = "avg"
                /\ UNCHANGED <<err, out>>
    /\ total' = 0
    /\ samplesAquired' = 0
    /\ ready' = FALSE
    /\ taken' = <<>>
    /\ elapsed' = 0
    /\ UNCHANGED <<regs, busVars, waitVars, monVars>>

\* getAverageReading returns e after t more milliseconds
AvgFail(e, rdy, sp, t) ==
    /\ pc' = "ret"
    /\ err' = e
    /\ ready' = rdy
    /\ steps' = sp
    /\ now' = U32Add(now, t)
    /\ elapsed' = elapsed + t
    /\ UNCHANGED <<out, total, samplesAquired, taken, divided>>

\* the end of a turn of the loop: the time check, the loop condition, the division
AvgAfterBody(tot, k, tk, sp, t) ==
    LET clock == U32Add(now, t)
    IN  /\ total' = tot
        /\ samplesAquired' = k
        /\ taken' = tk
        /\ ready' = FALSE
        /\ steps' = sp
        /\ now' = clock
        /\ elapsed' = elapsed + t
        /\ IF U32Gt(U32Sub(clock, startTime), timeout)
           THEN pc' = "ret" /\ err' = NAU7802_TIMEOUT_ERROR /\ UNCHANGED <<out, divided>>
           ELSE IF k < average_size
           THEN pc' = "avg" /\ UNCHANGED <<err, out, divided>>
           ELSE /\ pc' = "ret"
                /\ err' = NAU7802_OK
                /\ divided' = average_size
                /\ out' = Average(tot, average_size)

\* one turn of the while loop of getAverageReading
AvgIterOn(rb, gb, words, ms) ==
    /\ pc = "avg"
    /\ \E v \in DevReady(regs[NAU7802_PU_CTRL]), bus1 \in rb, t1 \in ms :
        LET rv == [regs EXCEPT ![NAU7802_PU_CTRL] = v]
            a == available(rv, bus1, ready)
        IN  /\ regs' = rv
            /\ IF a.err # NAU7802_OK
               THEN AvgFail(a.err, a.ready, a.steps, t1)
               ELSE IF a.ready
               THEN \E busG \in gb, bytes \in words, t2 \in ms :
                       LET g == getReading(busG, bytes, 0)
                           sp == a.steps \o <<Step("getReading", NAU7802_ADCO_B2, g.err, bytes, busG.avail)>>
                       IN  IF g.err # NAU7802_OK
                           THEN AvgFail(g.err, TRUE, sp, t1 + t2)
                           ELSE AvgAfterBody(Accumulate(total, g.val), samplesAquired + 1,
                                             Append(taken, g.val), sp, t1 + t2)
               ELSE AvgAfterBody(total, samplesAquired, taken, a.steps, t1)
    /\ UNCHANGED <<op, wire, average_size, timeout, startTime, waitVars, budgetVars, monVars>>

CallGetAverageReading == AvgCall(0..MaxN, FALSE) /\ UNCHANGED scaleVars

AvgIter == AvgIterOn(ReadBus, ReadingBus, AvgWords, BusMs) /\ UNCHANGED scaleVars

InitAvg == InitWith(WithCtrl2([a \in Regs |-> 0], 48))

NextAvg == CallGetAverageReading \/ AvgIter \/ Return

SpecAvg == InitAvg /\ [][NextAvg]_vars

\* C7: getAverageReading called with average_size = 0 returns an explicit error
\* code and never evaluates the division total / average_size.
ClaimC7 ==
    (op = "getAverageReading" /\ average_size = 0 /\ pc # "idle") =>
        /\ divided # 0
        /\ pc = "ret"
        /\ err # NAU7802_OK

RECURSIVE SumOf(_)
SumOf(q) == IF q = <<>> THEN 0 ELSE Head(q) + SumOf(Tail(q))

AveragedOk == Done("getAverageReading") /\ average_size >= 1 /\ err = NAU7802_OK

\* a turn of the loop that read a sample did so after its poll of the
\* cycle-ready bit succeeded and returned true
ReadsFollowReady ==
    \A i \in 1..Len(steps) :
        steps[i].fn = "getReading" =>
            /\ i = 2
            /\ steps[1].fn = "getRegister"
            /\ steps[1].reg = NAU7802_PU_CTRL
            /\ steps[1].err = NAU7802_OK
            /\ BitOf(steps[1].data, NAU7802_PU_CTRL_CR) = 1

\* C8: whenever getAverageReading(n), n >= 1, returns OK, exactly n samples were
\* read, each after a poll of the cycle-ready bit that returned true, and the
\* average is the integer quotient (truncated toward zero) of their sum by n.
ThmC8 ==
    /\ op = "getAverageReading" => ReadsFollowReady
    /\ AveragedOk =>
        LET sum == SumOf(taken)
        IN  /\ Len(taken) = average_size
            /\ samplesAquired = average_size
            /\ divided = average_size
            /\ out = (IF sum >= 0 THEN sum \div average_size
                      ELSE -((-sum) \div average_size))

WitC8 == AveragedOk /\ average_size = 2 /\ taken = <<-1, 0>> /\ out = 0

\* C9: getAverageReading(n), n >= 1, returns OK if n samples were collected, and
\* the averaging-timeout error only if the budget expired before n samples had
\* been collected.
ClaimC9 ==
    (Done("getAverageReading") /\ average_size >= 1) =>
        /\ samplesAquired = average_size => err = NAU7802_OK
        /\ err = NAU7802_TIMEOUT_ERROR => samplesAquired < average_size

(***************************************************************************)
(* The budget of getAverageReading against the configured sample rate: a   *)
(* quiet bus and an ADC at rest, setSampleRate between the averages.       *)
(***************************************************************************)
\* NAU7802_SPS_10, NAU7802_SPS_80, NAU7802_SPS_320, and a rate out of range
SampleRates == {0, 3, 7, 9}

CallSetSampleRate ==
    /\ pc = "idle"
    /\ op' = "setSampleRate"
    /\ \E rate \in SampleRates, busR \in ReadBus, busW \in WriteBus :
        LET r == setSampleRate(rate, regs, busR, busW)
        IN  /\ err' = r.err
            /\ regs' = r.regs
            /\ steps' = r.steps
    /\ pc' = "ret"
    /\ UNCHANGED <<now, elapsed, out, wire, waitVars, avgVars, budgetVars, monVars, scaleVars>>

CallGetAverageReadingTracked == AvgCall(1..MaxN, TRUE) /\ UNCHANGED scaleVars

AvgIterQuiet == AvgIterOn({BusOk}, {BusOk}, {<<0, 0, 1>>}, {1}) /\ UNCHANGED scaleVars

NextRate == CallSetSampleRate \/ CallGetAverageReadingTracked \/ AvgIterQuiet \/ Return

SpecRate == InitAvg /\ [][NextRate]_vars

\* C10: the budget of getAverageReading(n) is computed from the sample rate
\* configured on the chip: two successive averages of the same n under different
\* configured rates get different budgets.
ClaimC10 ==
    (prevBudget.n >= 1 /\ prevBudget.n = curBudget.n /\ prevBudget.rate # curBudget.rate) =>
        prevBudget.timeout # curBudget.timeout

(***************************************************************************)
(* The QwiicScale layer: calculateZeroOffset, calculateCalibrationFactor,  *)
(* getAverageWeight, readCalibration.  The three that average call         *)
(* getAverageReading, which runs turn by turn as above, and go on from its *)
(* return.  The readings are 900, 1000 and 3000 and the reference weight   *)
(* is 1000.0; readings and offsets are small, so that their differences    *)
(* are far from the ends of int32_t.                                       *)
(***************************************************************************)
ScaleWords == { <<0, 3, 132>>, <<0, 3, 232>>, <<0, 11, 184>> }

\* the outcomes of the status read in getAverageReading: success, or a NACK
\* on the address at every attempt
ScaleReadBus == { BusOk, [outs |-> <<2, 2, 2>>, avail |-> 1] }

\* a transaction takes 5 ms: a sample read in the first turn is within the
\* budget of 13 ms, the turns after two idle ones are past it
ScaleMs == {5}

Weights == { IntToFloat(1000) }

\* the number of samples of a capture or a weighing
ScaleSizes == {1}

SetThis(t) ==
    /\ zeroOffset' = t.zeroOffset
    /\ calibrationFactor' = t.calibrationFactor
    /\ isCalibrated' = t.isCalibrated
    /\ calibrationDetected' = t.calibrationDetected
    /\ useEEPROM' = t.useEEPROM
    /\ calFactorLocation' = t.calFactorLocation
    /\ zeroOffsetLocation' = t.zeroOffsetLocation
    /\ EEPROM' = t.EEPROM

driverVars == <<regs, now, elapsed, out, busVars, waitVars, avgVars, budgetVars, monVars>>

\* a method o that starts with getAverageReading(&avg, n)
CallAveraging(o, weight, negative, first) ==
    /\ calls < MaxCalls
    /\ AvgCall(ScaleSizes, FALSE)
    /\ caller' = o
    /\ calibration_weight_grams' = weight
    /\ allow_negative' = negative
    /\ untouched' = first
    /\ calls' = calls + 1
    /\ pre' = This
    /\ puts' = <<>>
    /\ weightWritten' = FALSE
    /\ UNCHANGED <<objVars, avg_weight, established, zeroFailed, lastSet>>

ScaleAvgIter == AvgIterOn(ScaleReadBus, {BusOk}, ScaleWords, ScaleMs) /\ UNCHANGED scaleVars

CallCalculateZeroOffset ==
    CallAveraging("calculateZeroOffset", calibration_weight_grams, allow_negative, FALSE)

ResumeCalculateZeroOffset ==
    /\ pc = "ret"
    /\ caller = "calculateZeroOffset"
    /\ LET r == calculateZeroOffset(err, out, This)
       IN  /\ err' = r.err
           /\ SetThis(r.this)
           /\ puts' = r.puts
           /\ established' = IF r.err = SCALE_OK THEN [established EXCEPT !.zero = TRUE]
                                                 ELSE established
           /\ zeroFailed' = (zeroFailed \/ r.err # SCALE_OK)
           /\ lastSet' = lastSet
    /\ op' = caller
    /\ caller' = "none"
    /\ UNCHANGED <<pc, driverVars, avg_weight, calibration_weight_grams, allow_negative,
                   weightWritten, pre, untouched, calls>>

CallCalculateCalibrationFactor ==
    \E w \in Weights : CallAveraging("calculateCalibrationFactor", w, allow_negative, FALSE)

ResumeCalculateCalibrationFactor ==
    /\ pc = "ret"
    /\ caller = "calculateCalibrationFactor"
    /\ LET r == calculateCalibrationFactor(err, out, calibration_weight_grams, This)
       IN  /\ err' = r.err
           /\ SetThis(r.this)
           /\ puts' = r.puts
           /\ established' = IF r.err = SCALE_OK THEN [established EXCEPT !.gain = TRUE]
                                                 ELSE established
           /\ zeroFailed' = (zeroFailed /\ r.err # SCALE_OK)
           /\ lastSet' = lastSet
    /\ op' = caller
    /\ caller' = "none"
    /\ UNCHANGED <<pc, driverVars, avg_weight, calibration_weight_grams, allow_negative,
                   weightWritten, pre, untouched, calls>>

CallGetAverageWeight ==
    /\ pc = "idle"
    /\ \E negative \in BOOLEAN :
        IF NotCalibrated(This)
        THEN /\ calls < MaxCalls
             /\ pc' = "ret"
             /\ op' = "getAverageWeight"
             /\ err' = SCALE_NOT_CALIBRATED_ERROR
             /\ allow_negative' = negative
             /\ calls' = calls + 1
             /\ pre' = This
             /\ UNCHANGED <<driverVars, objVars, avg_weight, caller, calibration_weight_grams,
                            puts, weightWritten, established, untouched, zeroFailed, lastSet>>
        ELSE CallAveraging("getAverageWeight", calibration_weight_grams, negative, untouched)

ResumeGetAverageWeight ==
    /\ pc = "ret"
    /\ caller = "getAverageWeight"
    /\ LET r == getAverageWeight(err, out, allow_negative, avg_weight, This)
       IN  /\ err' = r.err
           /\ avg_weight' = r.avg_weight
           /\ weightWritten' = r.written
    /\ op' = caller
    /\ caller' = "none"
    /\ UNCHANGED <<pc, driverVars, objVars, calibration_weight_grams, allow_negative,
                   puts, pre, established, untouched, zeroFailed, lastSet, calls>>

CallReadCalibration ==
    /\ pc = "idle"
    /\ calls < MaxCalls
    /\ LET r == readCalibration(This)
       IN  /\ err' = r.err
           /\ SetThis(r.this)
           /\ puts' = r.puts
           /\ established' = IF r.err = SCALE_OK THEN [zero |-> TRUE, gain |-> TRUE]
                                                 ELSE established
    /\ pc' = "ret"
    /\ op' = "readCalibration"
    /\ untouched' = FALSE
    /\ zeroFailed' = FALSE
    /\ lastSet' = lastSet
    /\ calls' = calls + 1
    /\ pre' = This
    /\ UNCHANGED <<driverVars, argVars, weightWritten>>

\* the sketch assigns the public member useEEPROM
SetUseEEPROM ==
    /\ pc = "idle"
    /\ useEEPROM' = ~useEEPROM
    /\ pre' = [pre EXCEPT !.useEEPROM = ~useEEPROM]
    /\ UNCHANGED <<pc, op, err, driverVars, zeroOffset, calibrationFactor, isCalibrated,
                   calibrationDetected, calFactorLocation, zeroOffsetLocation, EEPROM,
                   argVars, puts, weightWritten, established, untouched, zeroFailed, lastSet, calls>>

\* the caller takes the result of a QwiicScale method
ScaleReturn ==
    /\ ReturnDriver
    /\ avg_weight' = FloatZero(0)
    /\ calibration_weight_grams' = FloatZero(0)
    /\ allow_negative' = TRUE
    /\ puts' = <<>>
    /\ weightWritten' = FALSE
    /\ pre' = This
    /\ UNCHANGED <<objVars, caller, established, untouched, zeroFailed, lastSet, calls>>

\* what the store holds when the board starts: never written, or the record
\* (zeroOffset = 1000, calibrationFactor = 2.0) of an earlier run
ScaleStores == { StoreOf(Erased, Erased), StoreOf(FloatBytes(Float(0, 128, 0)), LongBytes(1000)) }

\* the ADC has a sample ready or not
InitScaleLayer ==
    /\ \E v \in DevReady(0) :
           InitDriver([a \in Regs |-> IF a = NAU7802_PU_CTRL THEN v ELSE IF a = NAU7802_CTRL2 THEN 48 ELSE 0])
    /\ \E store \in ScaleStores : InitScale(store)

NextScale ==
    \/ CallCalculateZeroOffset
    \/ ResumeCalculateZeroOffset
    \/ CallCalculateCalibrationFactor
    \/ ResumeCalculateCalibrationFactor
    \/ CallGetAverageWeight
    \/ ResumeGetAverageWeight
    \/ CallReadCalibration
    \/ SetUseEEPROM
    \/ ScaleAvgIter
    \/ ScaleReturn

SpecScale == InitScaleLayer /\ [][NextScale]_vars

(***************************************************************************)
(* C11: a zero-offset capture whose averaging fails.                       *)
(***************************************************************************)
\* the error getAverageReading ended with: that of its last transaction, or
\* the timeout
AverageError ==
    IF steps # <<>> /\ steps[Len(steps)].err # NAU7802_OK
    THEN steps[Len(steps)].err
    ELSE NAU7802_TIMEOUT_ERROR

ZeroCaptureFailed == Done("calculateZeroOffset") /\ err # SCALE_OK

\* C11: when the averaging inside calculateZeroOffset fails, its error is
\* returned, zeroOffset, calibrationFactor and the store are as before the call,
\* and isCalibrated is false; it remains false through later zero-offset
\* captures until calculateCalibrationFactor succeeds.
ThmC11 ==
    /\ ZeroCaptureFailed =>
          /\ err = AverageError
          /\ zeroOffset = pre.zeroOffset
          /\ calibrationFactor = pre.calibrationFactor
          /\ EEPROM = pre.EEPROM
          /\ puts = <<>>
          /\ ~isCalibrated
    /\ zeroFailed => ~isCalibrated

WitC11 ==
    /\ ZeroCaptureFailed
    /\ err = NAU7802_TIMEOUT_ERROR
    /\ pre.isCalibrated
    /\ zeroOffset = 1000
    /\ zeroFailed

(***************************************************************************)
(* C12: what getAverageWeight needs before it produces a weight.           *)
(***************************************************************************)
\* C12: getAverageWeight returns the not-calibrated error unless both the zero
\* offset and the gain factor have been established, each by its capture or by
\* a valid load.
ClaimC12 ==
    (Done("getAverageWeight") /\ err # SCALE_NOT_CALIBRATED_ERROR) =>
        (established.zero /\ established.gain)

(***************************************************************************)
(* C13: getAverageWeight on a scale just constructed.                      *)
(***************************************************************************)
WeighedUntouched == Done("getAverageWeight") /\ untouched

\* C13: with no capture and no load since construction, getAverageWeight
\* returns the not-calibrated error, whether or not the ADC has a sample ready,
\* with no bus transaction and without assigning the caller's weight.
ThmC13 ==
    WeighedUntouched =>
        /\ err = SCALE_NOT_CALIBRATED_ERROR
        /\ steps = <<>>
        /\ wire = <<>>
        /\ ~weightWritten
        /\ avg_weight = FloatZero(0)

WitC13 ==
    /\ WeighedUntouched
    /\ err = SCALE_NOT_CALIBRATED_ERROR
    /\ BitOf(regs[NAU7802_PU_CTRL], NAU7802_PU_CTRL_CR) = 1

(***************************************************************************)
(* C14: the weight of a calibrated scale.                                  *)
(***************************************************************************)
Weighed == Done("getAverageWeight") /\ err = SCALE_OK

\* the averaged reading is below the zero offset and negative weights are off
Clamping == ~allow_negative /\ out < zeroOffset

IsPositive(f) == f.s = 0 /\ ~isnan(f) /\ ~IsZero(f)

\* C14: a successful getAverageWeight yields (avg - zeroOffset) / calibrationFactor
\* for the average avg, except that it yields exactly 0 when allow_negative is
\* false and avg < zeroOffset; with allow_negative false and a positive
\* calibrationFactor the weight is never negative.
ClaimC14 ==
    Weighed =>
        /\ Clamping => IsZero(avg_weight)
        /\ ~Clamping => avg_weight = FloatDiv(IntToFloat(out - zeroOffset), calibrationFactor)
        /\ (~allow_negative /\ IsPositive(calibrationFactor)) =>
              (isnan(avg_weight) \/ IsZero(avg_weight) \/ avg_weight.s = 0)

(***************************************************************************)
(* C15, C16: when the captures write the store.                            *)
(***************************************************************************)
Captures == {"calculateZeroOffset", "calculateCalibrationFactor"}

Captured == pc = "ret" /\ caller = "none" /\ op \in Captures

\* the record the store holds at the two locations
Persisted ==
    [calibrationFactor |-> BytesFloat(EepromGet(EEPROM, calFactorLocation)),
     zeroOffset |-> BytesLong(EepromGet(EEPROM, zeroOffsetLocation))]

ScaleOps == Captures \cup {"getAverageWeight", "readCalibration"}

\* C16: with useEEPROM false, none of calculateZeroOffset,
\* calculateCalibrationFactor, getAverageWeight and readCalibration writes to
\* the store.
ClaimC16 ==
    (pc = "ret" /\ caller = "none" /\ op \in ScaleOps /\ ~useEEPROM) =>
        (puts = <<>> /\ EEPROM = pre.EEPROM)

(***************************************************************************)
(* The persistence interface: readCalibration, storeCalibration,           *)
(* setCalFactorLocation, setZeroOffsetLocation, over the stores a board    *)
(* can hold when it starts.                                                *)
(***************************************************************************)
\* the gain-factor field: never written, 1.0, 2.0, 0.5, 1.0005, 1.002, 2^32
FactorFields ==
    { Erased, FloatBytes(FloatOne), FloatBytes(Float(0, 128, 0)), FloatBytes(Float(0, 126, 0)),
      FloatBytes(Float(0, 127, 4194)), FloatBytes(Float(0, 127, 16777)),
      FloatBytes(Float(0, 159, 0)) }

\* the zero-offset field: never written, 0, 1000
OffsetFields == { Erased, LongBytes(0), LongBytes(1000) }

\* the locations the sketch passes to the two setters
Locations == {0, 4, 8, 10}

CallStoreCalibration ==
    /\ pc = "idle"
    /\ calls < MaxCalls
    /\ EEPROM' = storeCalibration(This)
    /\ puts' = StoreLocations(This)
    /\ pc' = "ret"
    /\ op' = "storeCalibration"
    /\ calls' = calls + 1
    /\ pre' = This
    /\ UNCHANGED <<err, driverVars, zeroOffset, calibrationFactor, isCalibrated,
                   calibrationDetected, useEEPROM, calFactorLocation, zeroOffsetLocation,
                   argVars, weightWritten, established, untouched, zeroFailed, lastSet>>

\* a setter of the object, called between two operations
Configure(fn, eeprom_location, t) ==
    /\ pc = "idle"
    /\ SetThis(t)
    /\ pre' = t
    /\ lastSet' = [fn |-> fn, eeprom_location |-> eeprom_location,
                   calFactorLocation |-> calFactorLocation,
                   zeroOffsetLocation |-> zeroOffsetLocation]
    /\ UNCHANGED <<pc, op, err, driverVars, argVars, puts, weightWritten, established,
                   untouched, zeroFailed, calls>>

CallSetCalFactorLocation ==
    \E l \in Locations : Configure("setCalFactorLocation", l, setCalFactorLocation(l, This))

CallSetZeroOffsetLocation ==
    \E l \in Locations : Configure("setZeroOffsetLocation", l, setZeroOffsetLocation(l, This))

InitStore ==
    /\ InitDriver(WithCtrl2([a \in Regs |-> 0], 48))
    /\ \E f \in FactorFields, o \in OffsetFields : InitScale(StoreOf(f, o))

NextStore ==
    \/ CallReadCalibration
    \/ CallStoreCalibration
    \/ CallSetCalFactorLocation
    \/ CallSetZeroOffsetLocation
    \/ ScaleReturn

SpecStore == InitStore /\ [][NextStore]_vars

(***************************************************************************)
(* C17, C18, C19: what readCalibration makes of the store.                 *)
(***************************************************************************)
Loaded == Done("readCalibration")

\* the two fields as the store held them when readCalibration was called
FactorField == EepromGet(pre.EEPROM, pre.calFactorLocation)

OffsetField == EepromGet(pre.EEPROM, pre.zeroOffsetLocation)

\* never written, not a number, or comparing equal to the sentinel 0xFFFFFFFF
FactorInvalid ==
    \/ FactorField = Erased
    \/ isnan(BytesFloat(FactorField))
    \/ EqualsUlongMax(BytesFloat(FactorField))

OffsetInvalid == OffsetField = Erased

\* C17: when readCalibration finds a field invalid, the object holds the
\* defaults zeroOffset = 0 and calibrationFactor = 1.0 with isCalibrated false,
\* and the error names the field: the gain factor if that one is invalid, the
\* zero offset otherwise.
ThmC17 ==
    (Loaded /\ (FactorInvalid \/ OffsetInvalid)) =>
        /\ zeroOffset = 0
        /\ calibrationFactor = FloatOne
        /\ ~isCalibrated
        /\ err = IF FactorInvalid THEN SCALE_EEPROM_READ_CAL_ERROR
                                  ELSE SCALE_EEPROM_READ_OFFSET_ERROR

WitC17 ==
    /\ Loaded
    /\ FactorInvalid
    /\ ~OffsetInvalid
    /\ pre.zeroOffset = 1000
    /\ pre.isCalibrated
    /\ err = SCALE_EEPROM_READ_CAL_ERROR
    /\ zeroOffset = 0

ReadErrors == {SCALE_EEPROM_READ_CAL_ERROR, SCALE_EEPROM_READ_OFFSET_ERROR}

\* C18: after readCalibration has found a field invalid, the store holds the
\* defaults in both fields: calibrationFactor = 1.0 and zeroOffset = 0.
ClaimC18 ==
    (Loaded /\ err \in ReadErrors) =>
        (Persisted.calibrationFactor = FloatOne /\ Persisted.zeroOffset = 0)

\* within about 0.001 of 1.0, on either side
EffectivelyOne(f) ==
    \/ f.s = 0 /\ f.e = 127 /\ f.m <= NearOneUlps
    \/ f.s = 0 /\ f.e = 126 /\ f.m >= Frac - 2 * NearOneUlps

\* C19: after readCalibration has loaded two valid fields, isCalibrated is false
\* exactly when zeroOffset is 0 and calibrationFactor is within about 0.001 of 1.0.
ClaimC19 ==
    (Loaded /\ err = SCALE_OK) =>
        (~isCalibrated <=> (zeroOffset = 0 /\ EffectivelyOne(calibrationFactor)))

(***************************************************************************)
(* C20: the two locations.                                                 *)
(***************************************************************************)
\* C20: the zero-offset location is at least 4 bytes past the gain-factor
\* location, whatever setCalFactorLocation and setZeroOffsetLocation were
\* called with.
ClaimC20 == zeroOffsetLocation >= calFactorLocation + 4

(***************************************************************************)
(* C21: a failing step of a composite operation.                           *)
(***************************************************************************)
\* C21: in calibrateAFE a transaction that fails is the last one of the
\* operation, and the operation returns the error of that transaction.
ClaimC21 ==
    Done("calibrateAFE") =>
        \A i \in 1..Len(steps) :
            steps[i].err # NAU7802_OK => (i = Len(steps) /\ err = steps[i].err)

(***************************************************************************)
(* C25: the two location setters.                                          *)
(***************************************************************************)
\* C25: after setZeroOffsetLocation(x) the zero-offset location is x, the
\* gain-factor location is what it was, and storeCalibration puts the zero
\* offset at x; after setCalFactorLocation(x) the gain-factor location is x and
\* the zero-offset location is what it was.
ClaimC25 ==
    /\ lastSet.fn = "setZeroOffsetLocation" =>
          /\ zeroOffsetLocation = lastSet.eeprom_location
          /\ calFactorLocation = lastSet.calFactorLocation
          /\ Done("storeCalibration") => puts[2] = lastSet.eeprom_location
    /\ lastSet.fn = "setCalFactorLocation" =>
          /\ calFactorLocation = lastSet.eeprom_location
          /\ zeroOffsetLocation = lastSet.zeroOffsetLocation

(***************************************************************************)
(* C22: the attempts of one call of the register transport.                *)
(***************************************************************************)
Transported == pc = "ret" /\ op \in Transport

\* the outcomes of endTransmission after which i2c_write makes another attempt
Retried == {1, 2}

\* C22: a call of the register transport ends after at most 3 attempts on the
\* bus, and after exactly 1 when the first attempt is not retried; every
\* attempt but the last is one that was retried.
ThmC22 ==
    Transported =>
        /\ Len(wire) \in 1..Tries
        /\ wire[1] \notin Retried => Len(wire) = 1
        /\ \A i \in 1..(Len(wire) - 1) : wire[i] \in Retried

WitC22 == Transported /\ op = "setRegister" /\ wire = <<2, 1, 2>> /\ err = NAU7802_I2C_NACK_ADDR_ERROR

(***************************************************************************)
(* C24: a burst read that delivers fewer than 3 bytes.                     *)
(***************************************************************************)
\* C24: getReading returns NAU7802_OK only when the chip delivered all 3 bytes
\* of the burst read.
ClaimC24 == (Done("getReading") /\ err = NAU7802_OK) => steps[1].avail = 3

(***************************************************************************)
(* C23: the running total of getAverageReading over up to 255 samples.     *)
(* The ADC always has a sample ready, the bus never fails and no time      *)
(* passes; the samples are the two extremes -2^23 and 2^23 - 1.            *)
(***************************************************************************)
\* the largest average_size a uint8_t holds
MaxSamples == 255

\* the largest value of the accumulator, a 32-bit long
Int32Max == 2147483647

ExtremeWords == { <<128, 0, 0>>, <<127, 255, 255>> }

SumSizes == {1, MaxSamples}

AddSampleUnsigned(tot, bytes) == Accumulate(tot, DecodeNoSign(bytes))

\* getReading(&value); total += value, for the word the chip delivers
AddSample(tot, bytes) == Accumulate(tot, getReading(BusOk, bytes, 0).val)

CallAccumulate ==
    /\ pc = "idle"
    /\ pc' = "sum"
    /\ op' = "getAverageReading"
    /\ \E n \in SumSizes :
        /\ average_size' = n
        /\ timeout' = n * MsPerSample
    /\ total' = 0
    /\ samplesAquired' = 0
    /\ UNCHANGED <<regs, now, elapsed, err, out, busVars, waitVars, startTime, ready, taken,
                   divided, budgetVars, monVars, scaleVars>>

\* a turn of the while loop that reads a sample
AccumulateSample ==
    /\ pc = "sum"
    /\ \E bytes \in ExtremeWords :
        /\ total' = AddSample(total, bytes)
        /\ samplesAquired' = samplesAquired + 1
        /\ IF samplesAquired + 1 < average_size
           THEN UNCHANGED <<pc, err, out, divided>>
           ELSE /\ pc' = "ret"
                /\ err' = NAU7802_OK
                /\ divided' = average_size
                /\ out' = Average(AddSample(total, bytes), average_size)
    /\ UNCHANGED <<op, regs, now, elapsed, busVars, waitVars, average_size, timeout, startTime,
                   ready, taken, budgetVars, monVars, scaleVars>>

NextSum == CallAccumulate \/ AccumulateSample \/ Return

SpecSum == InitAvg /\ [][NextSum]_vars

Summing == op = "getAverageReading" /\ pc \in {"sum", "ret"}

\* C23: for up to 255 samples in -2^23 .. 2^23 - 1 the running total of
\* getAverageReading stays within samplesAquired times the extremes, which is
\* within the range of a 32-bit long.
ThmC23 ==
    /\ MaxSamples * (2 ^ 23) <= Int32Max
    /\ Summing =>
          /\ samplesAquired <= MaxSamples
          /\ total >= -(samplesAquired * (2 ^ 23))
          /\ total <= samplesAquired * (2 ^ 23 - 1)
          /\ total >= -Int32Max - 1
          /\ total <= Int32Max

WitC23 == Summing /\ pc = "ret" /\ samplesAquired = MaxSamples /\ total = -2139095040

====
